---- MODULE Spec2Model ----
(***************************************************************************)
(* Model of ai_models.inputs: the field transforms of compute.py           *)
(* (make_z_from_gh, make_tcwv_from_q, make_rh_from_t_and_q and their       *)
(* numeric kernels) and the file-backed input provider and plugin lookup   *)
(* of file.py (FileInput, get_input, available_inputs).                    *)
(*                                                                         *)
(* Numbers.  numpy float64 values are modelled as exact rationals n/d      *)
(* together with the IEEE special values the kernels can produce (nan,     *)
(* +inf, -inf); rounding of finite results is not modelled.  np.exp is     *)
(* exact at 0 and at +-inf and tabulated (two decimals) elsewhere.         *)
(* Field values are 2-D grids (a sequence of rows), as to_numpy() yields   *)
(* for a regular grid.                                                     *)
(*                                                                         *)
(* Collaborators.  A field written with out.write and read back with       *)
(* ekd.from_source is the field written (GRIB packing precision is not     *)
(* modelled); a store nothing was written to reads back as no field.       *)
(* logging.warning calls and calls of the loaders are recorded as events.  *)
(***************************************************************************)
EXTENDS Integers, Sequences, FiniteSets, TLC

VARIABLES
    \* FileInput instance and its backing source
    file,        \* the Field collection ekd.from_source("file", self.file) yields
    metaKind,    \* what ds.metadata("param") yields: "list", "str" or "none"
    cache,       \* the instance __dict__ slots written by cached_property
    log,         \* events of the instance so far: loads, warnings, derivations
    outcome,     \* how the last property access ended
    \* a transform applied to a collection
    ds,          \* the input collection
    res,         \* [fn, exc, out]: the transform applied and what it returned
    \* compute_rh applied to arrays
    rhIn,        \* [q, T, P]
    rhOut,       \* [exc, val] once compute_rh has run, [exc |-> "pending"] before
    \* the plugin registry and get_input
    entries,     \* the entry points of the host environment, in scan order
    loads,       \* per entry point, how many times .load() was invoked
    instances,   \* the objects constructed, in order: [type, args, kwargs]
    lookup       \* the last get_input call, its number and how it ended

vars == <<file, metaKind, cache, log, outcome, ds, res, rhIn, rhOut,
          entries, loads, instances, lookup>>

----------------------------------------------------------------------------
(* float64 values *)

Abs(x) == IF x < 0 THEN -x ELSE x

Sign(x) == IF x < 0 THEN -1 ELSE IF x > 0 THEN 1 ELSE 0

RECURSIVE GCD(_, _)
GCD(a, b) == IF b = 0 THEN a ELSE GCD(b, a % b)

\* the finite value n/d in lowest terms with a positive denominator
Fin(n, d) ==
    LET s == IF d < 0 THEN -1 ELSE 1
        g == GCD(Abs(n), Abs(d))
    IN  [k |-> "fin", n |-> (s * n) \div g, d |-> (s * d) \div g]

Num(i) == [k |-> "fin", n |-> i, d |-> 1]

NaN == [k |-> "nan", n |-> 0, d |-> 1]

Inf(s) == [k |-> "inf", n |-> s, d |-> 1]

IsNaN(x) == x.k = "nan"

\* (n1/d1) * (n2/d2), reduced crosswise before multiplying
Prod(n1, d1, n2, d2) ==
    LET g1 == GCD(Abs(n1), Abs(d2))
        g2 == GCD(Abs(n2), Abs(d1))
    IN  IF n1 = 0 \/ n2 = 0 THEN Num(0)
        ELSE Fin((n1 \div g1) * (n2 \div g2), (d1 \div g2) * (d2 \div g1))

FMul(a, b) ==
    IF IsNaN(a) \/ IsNaN(b) THEN NaN
    ELSE IF a.k = "inf" \/ b.k = "inf"
         THEN IF Sign(a.n) * Sign(b.n) = 0 THEN NaN
              ELSE Inf(Sign(a.n) * Sign(b.n))
         ELSE Prod(a.n, a.d, b.n, b.d)

FDiv(a, b) ==
    IF IsNaN(a) \/ IsNaN(b) THEN NaN
    ELSE IF a.k = "inf"
         THEN IF b.k = "inf" THEN NaN
              ELSE Inf(IF b.n < 0 THEN -(a.n) ELSE a.n)
         ELSE IF b.k = "inf" THEN Num(0)
              ELSE IF b.n = 0
                   THEN IF a.n = 0 THEN NaN ELSE Inf(Sign(a.n))
                   ELSE Prod(a.n, a.d, b.d, b.n)

\* n1/d1 + n2/d2 over the least common denominator
Plus(n1, d1, n2, d2) ==
    LET g == GCD(d1, d2)
    IN  Fin(n1 * (d2 \div g) + n2 * (d1 \div g), (d1 \div g) * d2)

FAdd(a, b) ==
    IF IsNaN(a) \/ IsNaN(b) THEN NaN
    ELSE IF a.k = "inf"
         THEN IF b.k = "inf" /\ b.n # a.n THEN NaN ELSE a
         ELSE IF b.k = "inf" THEN b
              ELSE Plus(a.n, a.d, b.n, b.d)

\* a < b; false when either is nan
FLess(a, b) ==
    IF IsNaN(a) \/ IsNaN(b) THEN FALSE
    ELSE IF a.k = "inf" THEN a.n < 0 /\ ~(b.k = "inf" /\ b.n < 0)
         ELSE IF b.k = "inf" THEN b.n > 0
              ELSE \* integer parts first, then the fractional parts
                   LET ia == a.n \div a.d
                       ib == b.n \div b.d
                   IN  \/ ia < ib
                       \/ ia = ib /\ (a.n % a.d) * b.d < (b.n % b.d) * a.d

\* np.exp at the arguments the model reaches
ExpTable ==
    [x \in {Fin(114, 85)} |-> Fin(382, 100)]

FExp(x) ==
    IF IsNaN(x) THEN NaN
    ELSE IF x.k = "inf" THEN (IF x.n < 0 THEN Num(0) ELSE Inf(1))
         ELSE IF x.n = 0 THEN Num(1)
              ELSE ExpTable[x]

\* np.clip(x, lo, hi) == minimum(maximum(x, lo), hi); nan propagates
FClip(x, lo, hi) ==
    IF IsNaN(x) THEN NaN
    ELSE LET m == IF FLess(x, lo) THEN lo ELSE x
         IN  IF FLess(hi, m) THEN hi ELSE m

RECURSIVE FSum(_)
FSum(s) == IF s = <<>> THEN Num(0) ELSE FAdd(FSum(SubSeq(s, 1, Len(s) - 1)), s[Len(s)])

----------------------------------------------------------------------------
(* numpy arrays: a 2-D grid is a sequence of rows *)

Ny(A) == Len(A)

Nx(A) == Len(A[1])

Shape(A) == <<Ny(A), Nx(A)>>

Max(a, b) == IF a > b THEN a ELSE b

Broadcastable(A, B) ==
    /\ (Ny(A) = Ny(B) \/ Ny(A) = 1 \/ Ny(B) = 1)
    /\ (Nx(A) = Nx(B) \/ Nx(A) = 1 \/ Nx(B) = 1)

\* A / B elementwise under numpy broadcasting
Ratio(A, B) ==
    [i \in 1..Max(Ny(A), Ny(B)) |->
        [j \in 1..Max(Nx(A), Nx(B)) |->
            FDiv(A[IF Ny(A) = 1 THEN 1 ELSE i][IF Nx(A) = 1 THEN 1 ELSE j],
                 B[IF Ny(B) = 1 THEN 1 ELSE i][IF Nx(B) = 1 THEN 1 ELSE j])]]

\* A * c elementwise, c a scalar
Scale(A, c) == [i \in 1..Ny(A) |-> [j \in 1..Nx(A) |-> FMul(A[i][j], c)]]

----------------------------------------------------------------------------
(* Fields and collections *)

Field(param, level, levtype, values) ==
    [param |-> param, level |-> level, levtype |-> levtype, values |-> values]

\* out.write(values, template=f, param=p): every other key is the template's
Write(values, template, param) ==
    [template EXCEPT !.param = param, !.values = values]

\* ds.sel(levtype=lt)
Sel(coll, lt) == SelectSeq(coll, LAMBDA f : f.levtype = lt)

RECURSIVE Sorted(_)
Sorted(S) ==
    IF S = {} THEN <<>>
    ELSE LET m == CHOOSE x \in S : \A y \in S : x <= y
         IN  <<m>> \o Sorted(S \ {m})

\* {f.metadata("level"): f for f in ds if f.metadata("param") == p}: a dict
\* keeps a key at the position of its first insertion and the value of its
\* last one; it is modelled as a sequence of [key, value] in insertion order
RECURSIVE LevelTable(_, _)
LevelTable(coll, p) ==
    IF coll = <<>> THEN <<>>
    ELSE LET d == LevelTable(SubSeq(coll, 1, Len(coll) - 1), p)
             f == coll[Len(coll)]
         IN  IF f.param # p THEN d
             ELSE IF \E i \in 1..Len(d) : d[i].key = f.level
                  THEN [i \in 1..Len(d) |->
                            IF d[i].key = f.level THEN [d[i] EXCEPT !.value = f]
                            ELSE d[i]]
                  ELSE Append(d, [key |-> f.level, value |-> f])

Keys(d) == {d[i].key : i \in 1..Len(d)}

Get(d, key) == d[CHOOSE i \in 1..Len(d) : d[i].key = key].value

----------------------------------------------------------------------------
(* Bounds and input domains *)

MaxFileFields == 2

MaxDsFields == 3

MaxAccesses == 2

MaxEntries == 2

MaxCalls == 2

\* the sequences over S of length at most n
RECURSIVE SeqsUpTo(_, _)
SeqsUpTo(S, n) ==
    IF n = 0 THEN {<<>>}
    ELSE LET shorter == SeqsUpTo(S, n - 1)
         IN  shorter \cup {Append(s, x) : s \in {t \in shorter : Len(t) = n - 1}, x \in S}

\* a 1 x 2 and a 1 x 3 grid of the same value
U2(v) == <<<<v, v>>>>

U3(v) == <<<<v, v, v>>>>

----------------------------------------------------------------------------
(* compute.py *)

\* G = 9.80665
G == Fin(980665, 100000)

\* mutant: the values written as they are, the factor G forgotten
TimesG_Unscaled(values) == Scale(values, Num(1))

\* f.to_numpy() * G
TimesG(values) == Scale(values, G)

\* FieldArray(other) + ekd.from_source("file", tmp.path)
ZResult(other, gh) ==
    other \o [i \in 1..Len(gh) |-> Write(TimesG(gh[i].values), gh[i], "z")]

make_z_from_gh(coll) ==
    ZResult(SelectSeq(coll, LAMBDA f : f.param # "gh"),
            SelectSeq(coll, LAMBDA f : f.param = "gh"))

\* mutant: np.diff(p_levels, prepend=0), the lowest level weighted by its pressure
Diff_PrependZero(p_levels) ==
    [i \in 1..Len(p_levels) |->
        IF i = 1 THEN p_levels[1] - 0 ELSE p_levels[i] - p_levels[i - 1]]

\* np.diff(p_levels, prepend=p_levels[0])
Diff(p_levels) ==
    [i \in 1..Len(p_levels) |->
        IF i = 1 THEN p_levels[1] - p_levels[1] ELSE p_levels[i] - p_levels[i - 1]]

\* np.sum(q_levels * dp[:, np.newaxis, np.newaxis], axis=0) / G
WeightedSum(q_levels, dp) ==
    [y \in 1..Ny(q_levels[1]) |->
        [x \in 1..Nx(q_levels[1]) |->
            FDiv(FSum([i \in 1..Len(q_levels) |-> FMul(q_levels[i][y][x], Num(dp[i]))]),
                 G)]]

\* q_levels has shape (levels, ny, nx), p_levels shape (levels,)
compute_tcwv(q_levels, p_levels) == WeightedSum(q_levels, Diff(p_levels))

\* mutant: the last value of the table instead of the first
TcwvTemplate_Last(q_data) == q_data[Len(q_data)].value

\* the template of the derived field: next(iter(q_data.values()))
TcwvTemplate(q_data) == q_data[1].value

\* np.array(available_levels) * 100
Pascals(available_levels) ==
    [i \in 1..Len(available_levels) |-> available_levels[i] * 100]

\* np.array([q_data[level].to_numpy() for level in available_levels])
QValuesOf(q_data, available_levels) ==
    [i \in 1..Len(available_levels) |-> Get(q_data, available_levels[i]).values]

\* mutant: the consumed q fields are left out of the result
TcwvWrite_DropsQ(coll, q_data, available_levels, q_values) ==
    IF \E i \in 1..Len(q_values) : Shape(q_values[i]) # Shape(q_values[1])
    THEN [exc |-> "ValueError", out |-> <<>>]
    ELSE [exc |-> "none",
          out |-> SelectSeq(coll, LAMBDA f : f.param # "q")
                  \o <<Write(compute_tcwv(q_values, Pascals(available_levels)),
                             TcwvTemplate(q_data), "tcwv")>>]

\* the rest of make_tcwv_from_q once q_values is known
TcwvWrite(coll, q_data, available_levels, q_values) ==
    IF \E i \in 1..Len(q_values) : Shape(q_values[i]) # Shape(q_values[1])
    THEN \* np.array of arrays of different shapes
         [exc |-> "ValueError", out |-> <<>>]
    ELSE [exc |-> "none",
          out |-> coll \o <<Write(compute_tcwv(q_values, Pascals(available_levels)),
                                  TcwvTemplate(q_data), "tcwv")>>]

\* the rest of make_tcwv_from_q once the sorted levels are known
TcwvLevels(coll, q_data, available_levels) ==
    IF Len(available_levels) = 0
    THEN [exc |-> "none", out |-> coll]
    ELSE TcwvWrite(coll, q_data, available_levels, QValuesOf(q_data, available_levels))

\* the rest of make_tcwv_from_q once q_data is known
TcwvFrom(coll, q_data) == TcwvLevels(coll, q_data, Sorted(Keys(q_data)))

make_tcwv_from_q(coll) == TcwvFrom(coll, LevelTable(coll, "q"))

\* e = (q * P) / (0.622 + q)
VapourPressure(q, P) ==
    FDiv(FMul(q, Num(P)), FAdd(Fin(622, 1000), q))

\* es = 6.112 * np.exp((17.67 * T) / (T + 243.5))
SaturationPressure(T) ==
    FMul(Fin(6112, 1000),
         FExp(FDiv(FMul(Fin(1767, 100), T), FAdd(T, Fin(2435, 10)))))

\* np.clip(rh, 0, 100)
Clip(rh) ==
    [i \in 1..Ny(rh) |-> [j \in 1..Nx(rh) |-> FClip(rh[i][j], Num(0), Num(100))]]

\* rh = (e / es) * 100 and the clip; the operands of e / es must broadcast
RhOf(e, es) ==
    IF ~Broadcastable(e, es)
    THEN [exc |-> "ValueError", val |-> <<>>]
    ELSE [exc |-> "none",
          val |-> Clip(Scale(Ratio(e, es), Num(100)))]

\* q and T are grids, P the level
compute_rh(q, T, P) ==
    RhOf([i \in 1..Ny(q) |-> [j \in 1..Nx(q) |-> VapourPressure(q[i][j], P)]],
         [i \in 1..Ny(T) |-> [j \in 1..Nx(T) |-> SaturationPressure(T[i][j])]])

\* the levels at which the loop of make_rh_from_t_and_q calls compute_rh
Qualifying(available_levels, q_data, t_data) ==
    SelectSeq(available_levels, LAMBDA l : l \in Keys(q_data) /\ l \in Keys(t_data))

\* compute_rh(q_level, t_level, level) at each of those levels
RhValues(levels, q_data, t_data) ==
    [i \in 1..Len(levels) |->
        compute_rh(Get(q_data, levels[i]).values, Get(t_data, levels[i]).values, levels[i])]

\* the loop and the concatenation: the first level whose compute_rh raises
\* ends the call, else one field per level is written
RhWrite(coll, levels, q_data, rh) ==
    IF \E i \in 1..Len(rh) : rh[i].exc # "none"
    THEN [exc |-> "ValueError", out |-> <<>>]
    ELSE [exc |-> "none",
          out |-> coll \o [i \in 1..Len(levels) |->
                              Write(rh[i].val, Get(q_data, levels[i]), "r")]]

RhLevels(coll, levels, q_data, t_data) ==
    RhWrite(coll, levels, q_data, RhValues(levels, q_data, t_data))

RhFrom(coll, available_levels, q_data, t_data) ==
    RhLevels(coll, Qualifying(available_levels, q_data, t_data), q_data, t_data)

\* mutant: sorted(ds.metadata("level")) without set(), a level visited once
\* per field that has it
make_rh_from_t_and_q_NoSet(coll) ==
    RhFrom(coll,
           [k \in 1..Len(coll) |->
               Sorted({coll[i].level * 100 + i : i \in 1..Len(coll)})[k] \div 100],
           LevelTable(coll, "q"), LevelTable(coll, "t"))

make_rh_from_t_and_q(coll) ==
    RhFrom(coll, Sorted({coll[i].level : i \in 1..Len(coll)}),
           LevelTable(coll, "q"), LevelTable(coll, "t"))

----------------------------------------------------------------------------
(* file.py: FileInput *)

\* str.lower() on the parameter names of the model
Lower(p) == IF p = "Q" THEN "q" ELSE p

\* iterating a str yields its characters
Chars(p) ==
    CASE p = "tcwv" -> <<"t", "c", "w", "v">>
      [] OTHER      -> <<p>>

\* ds.metadata("param"): a list with one name per field, or what a malformed
\* source yields instead: one scalar name (a str, that of its first field),
\* or None
Metadata(coll, kind) ==
    CASE kind = "list" -> [type |-> "list", items |-> [i \in 1..Len(coll) |-> coll[i].param]]
      [] kind = "str"  -> [type |-> "str", items |-> Chars(coll[1].param)]
      [] OTHER         -> [type |-> "NoneType", items |-> <<>>]

\* [p.lower() for p in ds.metadata("param")]: a list comprehension over
\* whatever iterable it is given; None is not iterable
ParamList(md) ==
    IF md.type = "NoneType" THEN [exc |-> "TypeError", type |-> "none", items |-> <<>>]
    ELSE [exc |-> "none", type |-> "list",
          items |-> [i \in 1..Len(md.items) |-> Lower(md.items[i])]]

\* isinstance(param, (list, tuple))
IsListOrTuple(param) == param.type \in {"list", "tuple"}

In(x, items) == \E i \in 1..Len(items) : items[i] = x

\* "tcwv" not in param and "q" in param
NeedsTcwv(items) == ~In("tcwv", items) /\ In("q", items)

\* mutant: the test for "q" forgotten
NeedsRh_WithoutQ(items) == ~In("r", items)

\* "r" not in param and "q" in param
NeedsRh(items) == ~In("r", items) /\ In("q", items)

Returned(coll, events) == [exc |-> "none", out |-> coll, events |-> events]

Raised(exc, events) == [exc |-> exc, out |-> <<>>, events |-> events]

\* line 47, entered with what make_rh_from_t_and_q returned or raised
RhDone(r2, events) ==
    IF r2.exc # "none" THEN Raised(r2.exc, events) ELSE Returned(r2.out, events)

\* lines 44-47, entered with the working collection r and the events so far
RhStage(items, r, events) ==
    IF r.exc # "none" THEN Raised(r.exc, events)
    ELSE IF NeedsRh(items)
         THEN RhDone(make_rh_from_t_and_q(r.out), events \o <<"warn_r", "make_rh">>)
         ELSE Returned(r.out, events)

\* lines 41-43
TcwvStage(coll, items) ==
    IF NeedsTcwv(items)
    THEN RhStage(items, make_tcwv_from_q(coll), <<"load", "warn_tcwv", "make_tcwv">>)
    ELSE RhStage(items, [exc |-> "none", out |-> coll], <<"load">>)

\* lines 39-40, entered with the result of the comprehension
Checked(coll, param) ==
    IF param.exc # "none" THEN Raised(param.exc, <<"load">>)
    ELSE IF ~IsListOrTuple(param) THEN Raised("AssertionError", <<"load">>)
         ELSE TcwvStage(coll, param.items)

\* the body of the all_fields property: [exc, out, events]
all_fields(coll, kind) == Checked(coll, ParamList(Metadata(coll, kind)))

Unset == [set |-> FALSE, val |-> <<>>]

Cached(v) == [set |-> TRUE, val |-> v]

\* mutant: a property that never stores its value
CacheOnReturn_Never(c, prop, r) == c

\* functools.cached_property: the value is stored only when the body returns
CacheOnReturn(c, prop, r) ==
    IF r.exc = "none" THEN [c EXCEPT ![prop] = Cached(r.out)] ELSE c

Properties == {"all_fields", "fields_sfc", "fields_pl", "fields_ml"}

LevtypeOf(prop) ==
    CASE prop = "fields_sfc" -> "sfc"
      [] prop = "fields_pl"  -> "pl"
      [] OTHER               -> "ml"

Accesses(l) == Len(SelectSeq(l, LAMBDA e : e \in {"get", "get_part"}))

EventsOf(r) == r.events \o (IF r.exc = "none" THEN <<>> ELSE <<"raise">>)

\* self.all_fields as an expression: the cached value, or the body's result
ReadAllFields ==
    IF cache.all_fields.set THEN Returned(cache.all_fields.val, <<>>)
    ELSE all_fields(file, metaKind)

\* the access of self.all_fields ends with result r
EndGetAllFields(r) ==
    /\ cache' = CacheOnReturn(cache, "all_fields", r)
    /\ log' = Append(log, "get") \o EventsOf(r)
    /\ outcome' = [prop |-> "all_fields", exc |-> r.exc, val |-> r.out]

\* reading self.all_fields
GetAllFields ==
    /\ Accesses(log) < MaxAccesses
    /\ EndGetAllFields(ReadAllFields)
    /\ UNCHANGED <<file, metaKind>>

\* self.all_fields.sel(levtype=...)
SelPartition(prop, r) ==
    IF r.exc = "none" THEN [exc |-> "none", out |-> Sel(r.out, LevtypeOf(prop))]
    ELSE [exc |-> r.exc, out |-> <<>>]

\* the body of a partition property ran, self.all_fields ending with r
EndGetPartition(prop, r, v) ==
    /\ cache' = CacheOnReturn(CacheOnReturn(cache, "all_fields", r), prop, v)
    /\ log' = Append(log, "get_part") \o EventsOf(r)
    /\ outcome' = [prop |-> prop, exc |-> v.exc, val |-> v.out]

RunPartition(prop, r) == EndGetPartition(prop, r, SelPartition(prop, r))

\* reading self.fields_sfc, self.fields_pl or self.fields_ml
GetPartition(prop) ==
    /\ Accesses(log) < MaxAccesses
    /\ IF cache[prop].set
       THEN /\ outcome' = [prop |-> prop, exc |-> "none", val |-> cache[prop].val]
            /\ log' = Append(log, "get_part")
            /\ UNCHANGED cache
       ELSE RunPartition(prop, ReadAllFields)
    /\ UNCHANGED <<file, metaKind>>

GetFieldsSfc == GetPartition("fields_sfc")

GetFieldsPl == GetPartition("fields_pl")

GetFieldsMl == GetPartition("fields_ml")

----------------------------------------------------------------------------
(* file.py: plugin lookup *)

\* mutant: every entry point, whatever its group
get_group_all_AnyGroup(all, group) == [i \in 1..Len(all) |-> i]

\* entrypoints.get_group_all(group): the entry points of that group, as
\* indices into the scan order
get_group_all(all, group) == SelectSeq([i \in 1..Len(all) |-> i], LAMBDA i : all[i].group = group)

\* result[e.name] = e for each entry point in turn: a later one replaces an
\* earlier one of the same name.  The dict is a set of [name, entry] pairs.
available_inputs(all) ==
    LET group == get_group_all(all, "ai_models.input")
    IN  {[name |-> all[group[k]].name, entry |-> group[k]] :
            k \in {j \in 1..Len(group) :
                      \A m \in (j + 1)..Len(group) : all[group[m]].name # all[group[j]].name}}

NoCall == [n |-> 0, name |-> "", args |-> <<>>, kwargs |-> {}, exc |-> "none", key |-> ""]

\* available_inputs()[name].load()(*args, **kwargs)
get_input(name, args, kwargs) ==
    LET result == available_inputs(entries)
    IN  /\ lookup.n < MaxCalls
        /\ IF \E r \in result : r.name = name
           THEN LET e == (CHOOSE r \in result : r.name = name).entry
                IN  /\ loads' = [loads EXCEPT ![e] = @ + 1]
                    /\ instances' = Append(instances,
                                           [type |-> entries[e].target,
                                            args |-> args, kwargs |-> kwargs])
                    /\ lookup' = [n |-> lookup.n + 1, name |-> name, args |-> args,
                                   kwargs |-> kwargs, exc |-> "none", key |-> ""]
           ELSE /\ lookup' = [n |-> lookup.n + 1, name |-> name, args |-> args,
                               kwargs |-> kwargs, exc |-> "KeyError", key |-> name]
                /\ UNCHANGED <<loads, instances>>
        /\ UNCHANGED entries

----------------------------------------------------------------------------
(* Calls of the transforms and of compute_rh *)

NoResult == [fn |-> "none", exc |-> "none", out |-> <<>>]

CallMakeZ ==
    /\ res = NoResult
    /\ res' = [fn |-> "make_z_from_gh", exc |-> "none", out |-> make_z_from_gh(ds)]
    /\ UNCHANGED ds

CallMakeTcwv ==
    /\ res = NoResult
    /\ LET r == make_tcwv_from_q(ds)
       IN  res' = [fn |-> "make_tcwv_from_q", exc |-> r.exc, out |-> r.out]
    /\ UNCHANGED ds

CallMakeRh ==
    /\ res = NoResult
    /\ LET r == make_rh_from_t_and_q(ds)
       IN  res' = [fn |-> "make_rh_from_t_and_q", exc |-> r.exc, out |-> r.out]
    /\ UNCHANGED ds

Pending == [exc |-> "pending", val |-> <<>>]

CallComputeRh ==
    /\ rhOut = Pending
    /\ rhOut' = compute_rh(rhIn.q, rhIn.T, rhIn.P)
    /\ UNCHANGED rhIn

----------------------------------------------------------------------------
(* Inputs *)

\* the fields a backing file may hold
FileFields ==
    {Field("q", l, lt, U2(Fin(1, 1000))) : l \in {500, 850}, lt \in {"pl", "sfc"}}
    \cup {Field("t", 850, "pl", U2(Num(0))), Field("t", 850, "pl", U3(Num(0))),
          Field("tcwv", 0, "sfc", U2(Num(7))), Field("r", 850, "pl", U2(Num(50))),
          Field("Q", 850, "pl", U2(Fin(1, 1000)))}

\* the fields a collection handed to a transform may hold
DsFields ==
    {Field("q", l, "pl", U2(Fin(1, 1000))) : l \in {500, 850, 1000}}
    \cup {Field("q", 850, "ml", <<<<Fin(1, 1000), Fin(2, 1000)>>>>),
          Field("q", 1000, "pl", U3(Fin(1, 1000))),
          Field("t", 850, "pl", <<<<Num(0), Num(20)>>>>),
          Field("t", 500, "pl", U3(Num(0))),
          Field("gh", 500, "pl", U2(Num(1))),
          Field("gh", 850, "sfc", <<<<Num(0), Num(2)>>>>)}

QValues == {Num(0), Fin(1, 1000), Fin(1, 100), Fin(-1, 1000)}

TValues == {Num(0), Num(20), Fin(-2435, 10)}

EntryPoints ==
    [group : {"ai_models.input", "ai_models.output"}, name : {"file", "mars"},
     target : {"FileInput", "MarsInput"}]

InputNames == {"file", "mars", "cds"}

ArgValues == {<<>>, <<"owner", "in.grib">>}

KwargValues == {{}, {<<"date", 20240101>>}}

IdleProvider ==
    /\ file = <<>>
    /\ metaKind = "list"
    /\ cache = [p \in Properties |-> Unset]
    /\ log = <<>>
    /\ outcome = [prop |-> "none", exc |-> "none", val |-> <<>>]

IdleTransform == ds = <<>> /\ res = NoResult

IdleRh == rhIn = [q |-> U2(Num(0)), T |-> U2(Num(0)), P |-> 0] /\ rhOut = Pending

IdleRegistry ==
    /\ entries = <<>>
    /\ loads = <<>>
    /\ instances = <<>>
    /\ lookup = NoCall

providerVars == <<file, metaKind, cache, log, outcome>>

transformVars == <<ds, res>>

rhVars == <<rhIn, rhOut>>

registryVars == <<entries, loads, instances, lookup>>

----------------------------------------------------------------------------
(* FileInput: one instance over one backing file *)

InitProvider ==
    /\ file \in SeqsUpTo(FileFields, MaxFileFields)
    /\ metaKind \in (IF file = <<>> THEN {"list", "none"} ELSE {"list", "str", "none"})
    /\ cache = [p \in Properties |-> Unset]
    /\ log = <<>>
    /\ outcome = [prop |-> "none", exc |-> "none", val |-> <<>>]
    /\ IdleTransform /\ IdleRh /\ IdleRegistry

NextProvider ==
    \/ GetAllFields /\ UNCHANGED <<transformVars, rhVars, registryVars>>
    \/ GetFieldsSfc /\ UNCHANGED <<transformVars, rhVars, registryVars>>
    \/ GetFieldsPl /\ UNCHANGED <<transformVars, rhVars, registryVars>>
    \/ GetFieldsMl /\ UNCHANGED <<transformVars, rhVars, registryVars>>

SpecProvider == InitProvider /\ [][NextProvider]_vars

(* The transforms, each applied to a collection *)

InitTransform ==
    /\ ds \in SeqsUpTo(DsFields, MaxDsFields)
    /\ res = NoResult
    /\ IdleProvider /\ IdleRh /\ IdleRegistry

NextTransform ==
    \/ CallMakeZ /\ UNCHANGED <<providerVars, rhVars, registryVars>>
    \/ CallMakeTcwv /\ UNCHANGED <<providerVars, rhVars, registryVars>>
    \/ CallMakeRh /\ UNCHANGED <<providerVars, rhVars, registryVars>>

SpecTransform == InitTransform /\ [][NextTransform]_vars

(* compute_rh applied to a q grid, a T grid and a level *)

InitRh ==
    /\ rhIn \in [q : {<<<<a, b>>>> : a \in QValues, b \in QValues},
                 T : {<<<<a, b>>>> : a \in TValues, b \in TValues},
                 P : {500, 850}]
    /\ rhOut = Pending
    /\ IdleProvider /\ IdleTransform /\ IdleRegistry

NextRh == CallComputeRh /\ UNCHANGED <<providerVars, transformVars, registryVars>>

SpecRh == InitRh /\ [][NextRh]_vars

(* get_input over the entry points of one host environment *)

InitRegistry ==
    /\ entries \in SeqsUpTo(EntryPoints, MaxEntries)
    /\ loads = [i \in 1..Len(entries) |-> 0]
    /\ instances = <<>>
    /\ lookup = NoCall
    /\ IdleProvider /\ IdleTransform /\ IdleRh

NextRegistry ==
    \E name \in InputNames, args \in ArgValues, kwargs \in KwargValues :
        get_input(name, args, kwargs) /\ UNCHANGED <<providerVars, transformVars, rhVars>>

SpecRegistry == InitRegistry /\ [][NextRegistry]_vars

----------------------------------------------------------------------------
(* Properties of the transforms (SpecTransform) *)

Indices(coll, p) == {i \in 1..Len(coll) : coll[i].param = p}

LevelsOf(coll, p) == {coll[i].level : i \in Indices(coll, p)}

\* the field a level table holds for level l: the last one of the collection
LastAt(coll, p, l) ==
    coll[CHOOSE i \in Indices(coll, p) :
            /\ coll[i].level = l
            /\ \A j \in Indices(coll, p) : coll[j].level = l => j <= i]

\* the i-th smallest element of S, counted from 1
Nth(S, i) == CHOOSE l \in S : Cardinality({m \in S : m < l}) = i - 1

Points(values) == {<<y, x>> : y \in 1..Ny(values), x \in 1..Nx(values)}

Constant(values, v) == \A pt \in Points(values) : values[pt[1]][pt[2]] = v

\* sum over i = 2..n of q_i * (p_i - p_(i-1)) * 100 / g at one grid point, the
\* q levels in ascending order
RECURSIVE ColumnSum(_, _, _, _)
ColumnSum(coll, L, n, pt) ==
    IF n < 2 THEN Num(0)
    ELSE FAdd(ColumnSum(coll, L, n - 1, pt),
              FDiv(FMul(LastAt(coll, "q", Nth(L, n)).values[pt[1]][pt[2]],
                        Num((Nth(L, n) - Nth(L, n - 1)) * 100)),
                   Fin(980665, 100000)))

Permuted(coll, perm) == [i \in 1..Len(coll) |-> coll[perm[i]]]

TcwvReturned == res.fn = "make_tcwv_from_q" /\ res.exc = "none"

\* C3 as stated: each "gh" field yields a derived field whose values are the
\* original values divided by g, the other fields pass through, and without
\* a "gh" field the result is the input.
C3_HeightIsValueOverG ==
    res.fn = "make_z_from_gh" =>
        LET other == SelectSeq(ds, LAMBDA f : f.param # "gh")
            gh    == SelectSeq(ds, LAMBDA f : f.param = "gh")
        IN  /\ Len(res.out) = Len(ds)
            /\ SubSeq(res.out, 1, Len(other)) = other
            /\ \A i \in 1..Len(gh) :
                  LET d == res.out[Len(other) + i]
                  IN  /\ d.level = gh[i].level /\ d.levtype = gh[i].levtype
                      /\ Shape(d.values) = Shape(gh[i].values)
                      /\ \A pt \in Points(d.values) :
                            d.values[pt[1]][pt[2]]
                                = FDiv(gh[i].values[pt[1]][pt[2]], Fin(980665, 100000))
            /\ (gh = <<>> => res.out = ds)

\* C3 amended: each "gh" field yields a derived field tagged "z" whose values
\* are the original values multiplied by g = 9.80665 (so the derived value
\* divided by g is the original), level and level type taken from the
\* original; the other fields pass through unmodified, ahead of the derived
\* ones; without a "gh" field the result equals the input.
C3_GeopotentialIsValueTimesG ==
    res.fn = "make_z_from_gh" =>
        LET other == SelectSeq(ds, LAMBDA f : f.param # "gh")
            gh    == SelectSeq(ds, LAMBDA f : f.param = "gh")
        IN  /\ Len(res.out) = Len(ds)
            /\ SubSeq(res.out, 1, Len(other)) = other
            /\ \A i \in 1..Len(gh) :
                  LET d == res.out[Len(other) + i]
                  IN  /\ d.param = "z"
                      /\ d.level = gh[i].level /\ d.levtype = gh[i].levtype
                      /\ Shape(d.values) = Shape(gh[i].values)
                      /\ \A pt \in Points(d.values) :
                            FDiv(d.values[pt[1]][pt[2]], Fin(980665, 100000))
                                = gh[i].values[pt[1]][pt[2]]
            /\ (gh = <<>> => res.out = ds)

\* a constant field 1 became 9.80665 everywhere, next to a field passed through
C3_Witness ==
    /\ res.fn = "make_z_from_gh"
    /\ Len(ds) = 2 /\ ds[1].param = "gh" /\ ds[2].param = "q"
    /\ Constant(ds[1].values, Num(1))
    /\ res.out[1] = ds[2]
    /\ Constant(res.out[2].values, Fin(980665, 100000))

\* C5: the derived TCWV value at every grid point is the sum over the q
\* levels in ascending order, from the second on, of q_i * (p_i - p_(i-1)) *
\* 100 / g; one level gives 0 everywhere; levels 850 and 500 with uniform q
\* give q * (850 - 500) * 100 / g; and with one q field per level the value
\* does not depend on the order of the fields in the collection.
C5_TcwvIsPressureWeightedSum ==
    (TcwvReturned /\ Indices(ds, "q") # {}) =>
        LET d == res.out[Len(res.out)]
            L == LevelsOf(ds, "q")
        IN  /\ d.param = "tcwv"
            /\ \A pt \in Points(d.values) :
                  d.values[pt[1]][pt[2]] = ColumnSum(ds, L, Cardinality(L), pt)
            /\ (Cardinality(L) = 1 => Constant(d.values, Num(0)))
            /\ \A v \in {Fin(1, 1000)} :
                  (/\ L = {500, 850}
                   /\ Constant(LastAt(ds, "q", 500).values, v)
                   /\ Constant(LastAt(ds, "q", 850).values, v))
                  => Constant(d.values, FDiv(FMul(v, Num((850 - 500) * 100)),
                                             Fin(980665, 100000)))
            /\ (Cardinality(Indices(ds, "q")) = Cardinality(L) =>
                  \A perm \in Permutations(1..Len(ds)) :
                      LET r == make_tcwv_from_q(Permuted(ds, perm))
                      IN  r.exc = "none" /\ r.out[Len(r.out)].values = d.values)

\* q given at 850 then 500, uniform 0.001: 0.001 * 35000 / 9.80665 everywhere
C5_Witness ==
    /\ TcwvReturned
    /\ Len(ds) = 2 /\ ds[1].param = "q" /\ ds[2].param = "q"
    /\ ds[1].level = 850 /\ ds[2].level = 500
    /\ Constant(ds[1].values, Fin(1, 1000)) /\ Constant(ds[2].values, Fin(1, 1000))
    /\ Constant(res.out[3].values, Fin(3500000, 980665))

\* C6: the result of make_tcwv_from_q is the whole input, q fields included,
\* in the input order and unchanged, followed by exactly one field tagged
\* "tcwv" when the input has a "q" field and by nothing when it has none.
C6_TcwvKeepsInput ==
    TcwvReturned =>
        IF Indices(ds, "q") # {}
        THEN /\ Len(res.out) = Len(ds) + 1
             /\ SubSeq(res.out, 1, Len(ds)) = ds
             /\ res.out[Len(ds) + 1].param = "tcwv"
        ELSE res.out = ds

\* two q fields and another field are all still there, ahead of the tcwv field
C6_Witness ==
    /\ TcwvReturned
    /\ Len(ds) = 3 /\ Cardinality(Indices(ds, "q")) = 2
    /\ Len(res.out) = 4 /\ res.out[4].param = "tcwv"
    /\ \A i \in 1..3 : res.out[i] = ds[i]

RhCalled == res.fn = "make_rh_from_t_and_q"

\* the levels of the collection that have both a q and a t field
BothAt(coll) == LevelsOf(coll, "q") \cap LevelsOf(coll, "t")

\* C7: make_rh_from_t_and_q returns the whole input followed by exactly one
\* field tagged "r" for each level that has both a "q" and a "t" field,
\* stamped from that level's q field, and nothing for any other level; it
\* raises only from compute_rh at a level that has both, never because a
\* level lacks a field.
C7_RhPerQualifyingLevel ==
    RhCalled =>
        IF res.exc = "none"
        THEN LET derived == SubSeq(res.out, Len(ds) + 1, Len(res.out))
             IN  /\ SubSeq(res.out, 1, Len(ds)) = ds
                 /\ \A i \in 1..Len(derived) :
                       /\ derived[i].param = "r"
                       /\ derived[i].level \in BothAt(ds)
                       /\ derived[i].levtype = LastAt(ds, "q", derived[i].level).levtype
                 /\ \A l \in BothAt(ds) :
                       Cardinality({i \in 1..Len(derived) : derived[i].level = l}) = 1
        ELSE \E l \in BothAt(ds) :
                ~Broadcastable(LastAt(ds, "q", l).values, LastAt(ds, "t", l).values)

\* q at 500 and 850, t at 850 only: one r field, at 850, on the q field's
\* level type
C7_Witness ==
    /\ RhCalled /\ res.exc = "none"
    /\ LevelsOf(ds, "q") = {500, 850} /\ LevelsOf(ds, "t") = {850}
    /\ Len(res.out) = Len(ds) + 1
    /\ res.out[Len(res.out)].param = "r" /\ res.out[Len(res.out)].level = 850
    /\ res.out[Len(res.out)].levtype = "ml"

----------------------------------------------------------------------------
(* Properties of compute_rh (SpecRh) *)

InRange(v) == v.k = "fin" /\ ~FLess(v, Num(0)) /\ ~FLess(Num(100), v)

\* C8 as stated: every value compute_rh returns lies in [0, 100]: it is
\* 100 * e / es when that lies in [0, 100], exactly 100 when e > es, exactly 0
\* when e is negative, and exactly 0 when q = 0.
C8_RhWithinZeroAndHundred ==
    rhOut.exc = "none" =>
        \A pt \in Points(rhOut.val) :
            LET v  == rhOut.val[pt[1]][pt[2]]
                q  == rhIn.q[pt[1]][pt[2]]
                e  == VapourPressure(q, rhIn.P)
                es == SaturationPressure(rhIn.T[pt[1]][pt[2]])
                rh == FMul(FDiv(e, es), Num(100))
            IN  /\ InRange(v)
                /\ (InRange(rh) => v = rh)
                /\ (FLess(es, e) => v = Num(100))
                /\ (FLess(e, Num(0)) => v = Num(0))
                /\ (q = Num(0) => v = Num(0))

----------------------------------------------------------------------------
(* Properties of get_input (SpecRegistry) *)

\* the entry points registered under "ai_models.input" with this name
RegisteredAs(name) ==
    {i \in 1..Len(entries) : entries[i].group = "ai_models.input" /\ entries[i].name = name}

Latest(S) == CHOOSE i \in S : \A j \in S : j <= i

\* C9: a call get_input(name, *args, **kwargs) with name not registered under
\* "ai_models.input" ends in a KeyError carrying that name, and loads and
\* constructs nothing; with name registered it invokes the loader of that
\* name's entry point (the latest scanned) exactly once and constructs the
\* loaded type with exactly the caller's positional and keyword arguments.
C9_GetInputLooksUpLoadsAndInstantiates ==
    [][LET call == lookup'
       IN  IF RegisteredAs(call.name) = {}
           THEN /\ call.exc = "KeyError" /\ call.key = call.name
                /\ loads' = loads /\ instances' = instances
           ELSE /\ call.exc = "none"
                /\ loads' = [loads EXCEPT ![Latest(RegisteredAs(call.name))] = @ + 1]
                /\ instances' = Append(instances,
                                       [type |-> entries[Latest(RegisteredAs(call.name))].target,
                                        args |-> call.args, kwargs |-> call.kwargs])]_vars

\* one call constructed an input with the caller's arguments, and a later one
\* failed on a name that only another extension point registers
C9_Witness ==
    /\ Len(instances) = 1
    /\ instances[1].args = <<"owner", "in.grib">> /\ instances[1].kwargs # {}
    /\ lookup.exc = "KeyError" /\ lookup.key = lookup.name
    /\ \E i \in 1..Len(entries) :
          entries[i].name = lookup.name /\ entries[i].group = "ai_models.output"

----------------------------------------------------------------------------
(* Properties of FileInput (SpecProvider) *)

Count(e, l) == Len(SelectSeq(l, LAMBDA x : x = e))

\* the lowercase parameter names of the fields of the backing file
Names == {Lower(file[i].param) : i \in 1..Len(file)}

WantsTcwv == "tcwv" \notin Names /\ "q" \in Names

WantsRh == "r" \notin Names /\ "q" \in Names

\* C1 as stated, for a source whose metadata is the usual per-field list:
\* over any sequence of accesses, failed and repeated ones included, the
\* collection is loaded at most once, each derivation runs at most once and
\* each warning is emitted at most once.
C1_LoadedDerivedWarnedAtMostOnce ==
    metaKind = "list" =>
        \A e \in {"load", "make_tcwv", "make_rh", "warn_tcwv", "warn_r"} : Count(e, log) <= 1

\* C1 amended: an access that finds all_fields uncached runs its body anew,
\* so the collection is loaded once more than accesses have failed so far
\* (and each derivation and warning happens at most once per load); once an
\* access has returned, the collection is cached for good and no later
\* access, of any of the four properties, loads, derives or warns again.
C1_AtMostOncePerReturnedBody ==
    /\ [](/\ Count("load", log) = Count("raise", log)
                                  + (IF cache.all_fields.set THEN 1 ELSE 0)
          /\ \A e \in {"make_tcwv", "make_rh", "warn_tcwv", "warn_r"} :
                Count(e, log) <= Count("load", log))
    /\ [][cache.all_fields.set =>
             /\ cache'.all_fields = cache.all_fields
             /\ \A e \in {"load", "make_tcwv", "make_rh", "warn_tcwv", "warn_r", "raise"} :
                   Count(e, log') = Count(e, log)]_vars

\* both derivations ran and warned once, and a second access of another
\* property was served from the cached collection
C1_Witness ==
    /\ cache.all_fields.set /\ cache.fields_pl.set
    /\ Accesses(log) = 2 /\ log[1] = "get"
    /\ \A e \in {"load", "make_tcwv", "make_rh", "warn_tcwv", "warn_r"} : Count(e, log) = 1

\* the events of the one run of the all_fields body that returned
Ran(e) == Count(e, log) > 0

\* C2: for a source with per-field metadata, once the all_fields body has
\* run, the TCWV derivation ran, with its warning, exactly when the lowercase
\* names lack "tcwv" and have "q", and the RH derivation, with its warning,
\* exactly when they lack "r" and have "q" (TCWV having returned), TCWV
\* first; when both ran the cached collection is RH applied to the TCWV
\* output, and when neither ran it is the loaded source unchanged.
C2_DerivationsRunExactlyWhenNeeded ==
    (metaKind = "list" /\ Ran("load")) =>
        /\ Ran("make_tcwv") = WantsTcwv /\ Ran("warn_tcwv") = WantsTcwv
        /\ Ran("make_rh") = (WantsRh /\ (WantsTcwv => make_tcwv_from_q(file).exc = "none"))
        /\ Ran("warn_r") = Ran("make_rh")
        /\ \A j \in 1..Len(log) :
              (log[j] = "make_rh" /\ WantsTcwv) =>
                  \E i \in 1..(j - 1) :
                      /\ log[i] = "make_tcwv"
                      /\ \A k \in i..j : log[k] # "load"
        /\ cache.all_fields.set => cache.all_fields.val =
              (CASE WantsTcwv /\ WantsRh ->
                        make_rh_from_t_and_q(make_tcwv_from_q(file).out).out
                 [] WantsTcwv /\ ~WantsRh -> make_tcwv_from_q(file).out
                 [] ~WantsTcwv /\ WantsRh -> make_rh_from_t_and_q(file).out
                 [] OTHER -> file)

\* q and t at 850 hPa and nothing else: TCWV was derived first, then RH on
\* top of it
C2_Witness ==
    /\ metaKind = "list" /\ cache.all_fields.set
    /\ Names = {"q", "t"}
    /\ log = <<"get", "load", "warn_tcwv", "make_tcwv", "warn_r", "make_rh">>
    /\ Len(cache.all_fields.val) = 4
    /\ cache.all_fields.val[3].param = "tcwv" /\ cache.all_fields.val[4].param = "r"

\* C4 as stated, for its own example: when ds.metadata("param") yields one
\* scalar string instead of a list or tuple, reading all_fields ends in an
\* AssertionError, no derivation runs and nothing is cached.
C4_MalformedMetadataFailsAssertion ==
    (metaKind = "str" /\ Ran("load")) =>
        /\ outcome.exc = "AssertionError"
        /\ ~Ran("make_tcwv") /\ ~Ran("make_rh")
        /\ \A p \in Properties : ~cache[p].set

\* the field make_tcwv_from_q appended to the file's fields
Derived == cache.all_fields.val[Len(file) + 1]

\* the q field the level table yields first: the table keeps the level of the
\* file's first q field first, holding the last q field of that level
Template == LastAt(file, "q", file[CHOOSE i \in Indices(file, "q") :
                                       \A j \in Indices(file, "q") : i <= j].level)

Holds(slot, f) == \E i \in 1..Len(slot.val) : slot.val[i] = f

====
